---- MODULE Spec2Model ----
(***************************************************************************)
(* Rental property calculator: the input record, the change / blur         *)
(* handlers, the recompute effect and the calculation engine               *)
(* (calculateResults, generateCashFlowSchedule).                           *)
(*                                                                         *)
(* Numbers.  A JavaScript number is modelled as an extended rational       *)
(* [s, n, d]: sign s in {-1,0,1}, magnitude n/d with n and d arbitrary     *)
(* precision naturals (sequences of base-1000 limbs, least significant     *)
(* first).  d = <<>> marks the non-finite values: 1/0 is +Infinity, -1/0   *)
(* is -Infinity and 0/0 is NaN, with the IEEE-754 rules for how they       *)
(* arise and propagate.  +, -, * and / are the exact real operations (the  *)
(* rounding of binary64 is abstracted away); Math.pow, which ECMAScript    *)
(* only requires to be an approximation, is exact while the result fits    *)
(* PowLimbs limbs and is truncated to that precision beyond.  Signed zero  *)
(* is not distinguished.                                                   *)
(***************************************************************************)
EXTENDS Integers, Sequences, FiniteSets, Bags, TLC

Base == 1000

\* ------------------------------------------------------------------------
\* Arbitrary precision naturals
\* ------------------------------------------------------------------------

SetMax(S) == CHOOSE x \in S : \A y \in S : y <= x

Max2(x, y) == IF x > y THEN x ELSE y

Min2(x, y) == IF x < y THEN x ELSE y

\* the function f on 1..len as a sequence
AsSeq(f, len) == SubSeq(f, 1, len)

\* the index of the highest nonzero limb of a at or below k, 0 when there is none
RECURSIVE TopLimb(_, _)
TopLimb(a, k) == IF k = 0 \/ a[k] # 0 THEN k ELSE TopLimb(a, k - 1)

\* a without its leading zero limbs
BTrim(a) == SubSeq(a, 1, TopLimb(a, Len(a)))

RECURSIVE BFromNat(_)
BFromNat(x) == IF x = 0 THEN <<>> ELSE <<x % Base>> \o BFromNat(x \div Base)

RECURSIVE BToNat(_)
BToNat(a) == IF Len(a) = 0 THEN 0 ELSE a[1] + Base * BToNat(Tail(a))

BLimb(a, k) == IF k >= 1 /\ k <= Len(a) THEN a[k] ELSE 0

\* the carry into column k of the column values col, every carry being in
\* lo..hi; a column passes the carry below it on only when that carry
\* changes what it hands up
RECURSIVE CarryIn(_, _, _, _)
CarryIn(col, k, lo, hi) ==
  IF k = 1 THEN 0
  ELSE IF (col[k - 1] + lo) \div Base = (col[k - 1] + hi) \div Base
  THEN col[k - 1] \div Base
  ELSE (col[k - 1] + CarryIn(col, k - 1, lo, hi)) \div Base

\* the limbs of the number with column values col[1..len], carries in lo..hi
Carried(col, len, lo, hi) ==
  BTrim(AsSeq([k \in 1..(len + 1) |->
                 ((IF k <= len THEN col[k] ELSE 0) + CarryIn(col, k, lo, hi)) % Base],
              len + 1))

BAddCols(a, b, len) ==
  Carried(AsSeq([k \in 1..len |-> BLimb(a, k) + BLimb(b, k)], len), len, 0, 1)

BAdd(a, b) == BAddCols(a, b, Max2(Len(a), Len(b)))

\* a - b for a >= b
BSub(a, b) ==
  Carried(AsSeq([k \in 1..Len(a) |-> a[k] - BLimb(b, k)], Len(a)), Len(a), -1, 0)

Zeros(len) == AsSeq([i \in 1..len |-> 0], len)

\* the column sums of the limb products of a (la limbs) and b, b given as pb
\* between la - 1 zeros on each side; the sums stand between three zeros
ColumnSums(a, pb, la, len) ==
  <<0, 0, 0>>
  \o AsSeq([k \in 1..len |->
              BagCardinality([i \in 1..la |-> a[i] * pb[k - i + la] + 1]) - la],
           len)
  \o <<0, 0, 0>>

\* each column sum spread over four columns, one digit of the base each
SpreadColumns(sums, len) ==
  AsSeq([k \in 1..len |->
           (sums[k + 3] % Base)
           + ((sums[k + 2] \div Base) % Base)
           + ((sums[k + 1] \div (Base * Base)) % Base)
           + (sums[k] \div (Base * Base * Base))],
        len)

\* a * b by columns, for a the shorter operand
BMulShort(a, b) ==
  Carried(SpreadColumns(ColumnSums(a, Zeros(Len(a) - 1) \o b \o Zeros(Len(a) - 1),
                                   Len(a), Len(a) + Len(b) - 1),
                        Len(a) + Len(b) + 2),
          Len(a) + Len(b) + 2, 0, 3)

BMul(a, b) ==
  IF Len(a) = 0 \/ Len(b) = 0 THEN <<>>
  ELSE IF a = <<1>> THEN b
  ELSE IF b = <<1>> THEN a
  ELSE IF Len(a) <= Len(b) THEN BMulShort(a, b)
  ELSE BMulShort(b, a)

\* a against b from limb k down, for a and b of one length: -1, 0, 1
RECURSIVE BCmpFrom(_, _, _)
BCmpFrom(a, b, k) ==
  IF k = 0 THEN 0
  ELSE IF a[k] # b[k] THEN (IF a[k] < b[k] THEN -1 ELSE 1)
  ELSE BCmpFrom(a, b, k - 1)

\* -1, 0, 1 as a < b, a = b, a > b
BCmp(a, b) ==
  IF Len(a) # Len(b) THEN (IF Len(a) < Len(b) THEN -1 ELSE 1)
  ELSE IF a = b THEN 0
  ELSE BCmpFrom(a, b, Len(a))

\* the largest q in lo..hi with q * b <= rem
RECURSIVE BQuotDigit(_, _, _, _)
BQuotDigit(rem, b, lo, hi) ==
  IF lo = hi THEN lo
  ELSE IF BCmp(BMul(b, BFromNat((lo + hi + 1) \div 2)), rem) <= 0
  THEN BQuotDigit(rem, b, (lo + hi + 1) \div 2, hi)
  ELSE BQuotDigit(rem, b, lo, (lo + hi + 1) \div 2 - 1)

\* floor(a / b) for b # 0, by long division from the top limb: cur is the
\* running remainder with limb k brought down, q its quotient digit
RECURSIVE BDivStep(_, _, _, _)
BDivDigit(a, b, k, cur, q) ==
  BDivStep(a, b, k - 1, BSub(cur, BMul(b, BFromNat(q)))) \o <<q>>

BDivCur(a, b, k, cur) == BDivDigit(a, b, k, cur, BQuotDigit(cur, b, 0, Base - 1))

BDivStep(a, b, k, rem) ==
  IF k = 0 THEN <<>> ELSE BDivCur(a, b, k, BTrim(<<a[k]>> \o rem))

BDiv(a, b) == BTrim(BDivStep(a, b, Len(a), <<>>))

RECURSIVE Gcd(_, _)
Gcd(x, y) == IF y = 0 THEN x ELSE Gcd(y, x % y)

\* ------------------------------------------------------------------------
\* JavaScript numbers: extended rationals
\* ------------------------------------------------------------------------

NaN == [s |-> 0, n |-> <<>>, d |-> <<>>]

PosInf == [s |-> 1, n |-> <<1>>, d |-> <<>>]

NegInf == [s |-> -1, n |-> <<1>>, d |-> <<>>]

Zero == [s |-> 0, n |-> <<>>, d |-> <<1>>]

IsNaN(x) == x.d = <<>> /\ x.s = 0

IsInf(x) == x.d = <<>> /\ x.s # 0

IsFinite(x) == x.d # <<>>

Inf(sign) == IF sign < 0 THEN NegInf ELSE PosInf

\* lowest terms while numerator and denominator fit three limbs
Reduced(s, p, q, g) == [s |-> s, n |-> BFromNat(p \div g), d |-> BFromNat(q \div g)]

RNorm(x) ==
  IF x.d = <<>> THEN x
  ELSE IF x.n = <<>> THEN Zero
  ELSE IF Len(x.n) <= 3 /\ Len(x.d) <= 3
  THEN Reduced(x.s, BToNat(x.n), BToNat(x.d), Gcd(BToNat(x.n), BToNat(x.d)))
  ELSE x

\* the number p / q for integers p and q > 0
Rat(p, q) ==
  RNorm([s |-> IF p > 0 THEN 1 ELSE IF p < 0 THEN -1 ELSE 0,
         n |-> BFromNat(IF p < 0 THEN -p ELSE p),
         d |-> BFromNat(q)])

Num(p) == Rat(p, 1)

RNeg(x) == [x EXCEPT !.s = -x.s]

\* s1*m1 + s2*m2 over the denominator d, for signs of opposite direction
\* and c the comparison of m1 with m2
SignedDiff(s1, m1, s2, m2, d, c) ==
  IF c = 0 THEN Zero
  ELSE IF c > 0 THEN RNorm([s |-> s1, n |-> BSub(m1, m2), d |-> d])
  ELSE RNorm([s |-> s2, n |-> BSub(m2, m1), d |-> d])

\* (s1*m1 + s2*m2) / d
SignedSum(s1, m1, s2, m2, d) ==
  IF s1 = 0 THEN RNorm([s |-> s2, n |-> m2, d |-> d])
  ELSE IF s2 = 0 THEN RNorm([s |-> s1, n |-> m1, d |-> d])
  ELSE IF s1 = s2 THEN RNorm([s |-> s1, n |-> BAdd(m1, m2), d |-> d])
  ELSE SignedDiff(s1, m1, s2, m2, d, BCmp(m1, m2))

RAdd(x, y) ==
  IF IsNaN(x) \/ IsNaN(y) THEN NaN
  ELSE IF IsInf(x) THEN (IF IsInf(y) /\ y.s # x.s THEN NaN ELSE x)
  ELSE IF IsInf(y) THEN y
  ELSE IF x.d = y.d THEN SignedSum(x.s, x.n, y.s, y.n, x.d)
  ELSE SignedSum(x.s, BMul(x.n, y.d), y.s, BMul(y.n, x.d), BMul(x.d, y.d))

RSub(x, y) == RAdd(x, RNeg(y))

RMul(x, y) ==
  IF IsNaN(x) \/ IsNaN(y) THEN NaN
  ELSE IF IsInf(x) \/ IsInf(y)
  THEN (IF x.s = 0 \/ y.s = 0 THEN NaN ELSE Inf(x.s * y.s))
  ELSE RNorm([s |-> x.s * y.s, n |-> BMul(x.n, y.n), d |-> BMul(x.d, y.d)])

RDiv(x, y) ==
  IF IsNaN(x) \/ IsNaN(y) THEN NaN
  ELSE IF IsInf(x)
  THEN (IF IsInf(y) THEN NaN ELSE Inf(IF y.s < 0 THEN -x.s ELSE x.s))
  ELSE IF IsInf(y) THEN Zero
  ELSE IF y.s = 0 THEN (IF x.s = 0 THEN NaN ELSE Inf(x.s))
  ELSE RNorm([s |-> x.s * y.s, n |-> BMul(x.n, y.d), d |-> BMul(x.d, y.n)])

\* -1, 0, 1 as x < y, x = y, x > y; 2 when a NaN makes them unordered
Sgn(i) == IF i < 0 THEN -1 ELSE IF i > 0 THEN 1 ELSE 0

\* the place of x among -Infinity, the finite numbers and +Infinity
Rank(x) == IF IsInf(x) THEN x.s ELSE 0

RCmp(x, y) ==
  IF IsNaN(x) \/ IsNaN(y) THEN 2
  ELSE IF IsInf(x) \/ IsInf(y) THEN Sgn(Rank(x) - Rank(y))
  ELSE IF x.s # y.s THEN (IF x.s < y.s THEN -1 ELSE 1)
  ELSE IF x.s = 0 THEN 0
  ELSE x.s * BCmp(BMul(x.n, y.d), BMul(y.n, x.d))

REq(x, y) == RCmp(x, y) = 0

RLt(x, y) == RCmp(x, y) = -1

RLe(x, y) == RCmp(x, y) \in {-1, 0}

RGt(x, y) == RCmp(x, y) = 1

RGe(x, y) == RCmp(x, y) \in {0, 1}

\* Math.max of two numbers
MathMax(x, y) ==
  IF IsNaN(x) \/ IsNaN(y) THEN NaN
  ELSE IF RGe(x, y) THEN x ELSE y

\* Math.round: the integer nearest x, ties towards +Infinity
\* floor of the finite t, with q = floor(|t|)
FloorWith(t, q) ==
  IF t.s >= 0 THEN RNorm([s |-> 1, n |-> q, d |-> <<1>>])
  ELSE RNorm([s |-> -1,
              n |-> IF BCmp(BMul(q, t.d), t.n) = 0 THEN q ELSE BAdd(q, <<1>>),
              d |-> <<1>>])

Floor(t) == FloorWith(t, BDiv(t.n, t.d))

MathRound(x) == IF ~IsFinite(x) THEN x ELSE Floor(RAdd(x, Rat(1, 2)))

\* precision of Math.pow, in limbs
PowLimbs == 6

\* x with the low limbs of numerator and denominator dropped together, so
\* that the shorter of the two keeps PowLimbs limbs
DropLimbs(x, drop) ==
  IF drop <= 0 THEN x
  ELSE [s |-> x.s,
        n |-> SubSeq(x.n, drop + 1, Len(x.n)),
        d |-> SubSeq(x.d, drop + 1, Len(x.d))]

RTrunc(x) == DropLimbs(x, Min2(Len(x.n), Len(x.d)) - PowLimbs)

\* acc * x^k for finite x and a whole k >= 0, by squaring x for each bit of k
RECURSIVE RPowLoop(_, _, _)
RPowLoop(acc, x, k) ==
  IF k = 0 THEN acc
  ELSE IF IsNaN(acc) \/ IsNaN(x) THEN NaN
  ELSE RPowLoop(IF k % 2 = 1 THEN RTrunc(RMul(acc, x)) ELSE acc,
                IF k \div 2 = 0 THEN x ELSE RTrunc(RMul(x, x)),
                k \div 2)

RPowNat(x, k) == RPowLoop(Num(1), x, k)

\* x^k for a whole k > 0
PowWhole(x, k) ==
  IF IsInf(x) THEN Inf(IF x.s < 0 /\ k % 2 = 1 THEN -1 ELSE 1) ELSE RPowNat(x, k)

IsWhole(x) == IsFinite(x) /\ x.d = <<1>> /\ Len(x.n) <= 3

\* Math.pow for a whole exponent (amortizationPeriod is a whole number of
\* years in every input drawn here, so totalPayments is whole)
MathPow(x, e) ==
  IF IsNaN(e) THEN NaN
  ELSE IF e.s = 0 THEN Num(1)
  ELSE IF IsNaN(x) THEN NaN
  ELSE IF IsWhole(e) /\ e.s > 0 THEN PowWhole(x, BToNat(e.n))
  ELSE IF IsWhole(e) THEN RDiv(Num(1), PowWhole(x, BToNat(e.n)))
  ELSE CHOOSE v \in {} : TRUE

\* ------------------------------------------------------------------------
\* Text of a number input, and JavaScript values
\* ------------------------------------------------------------------------

DigitChars == {"0", "1", "2", "3", "4", "5", "6", "7", "8", "9"}

DigitVal(c) ==
  CASE c = "0" -> 0 [] c = "1" -> 1 [] c = "2" -> 2 [] c = "3" -> 3
    [] c = "4" -> 4 [] c = "5" -> 5 [] c = "6" -> 6 [] c = "7" -> 7
    [] c = "8" -> 8 [] c = "9" -> 9

\* value.replace(/^0+(?=\d)/, '')
RECURSIVE StripLeadingZeros(_)
StripLeadingZeros(str) ==
  IF Len(str) >= 2 /\ str[1] = "0" /\ str[2] \in DigitChars
  THEN StripLeadingZeros(Tail(str))
  ELSE str

RECURSIVE DigitsToNat(_)
DigitsToNat(str) ==
  IF Len(str) = 0 THEN 0
  ELSE 10 * DigitsToNat(SubSeq(str, 1, Len(str) - 1)) + DigitVal(str[Len(str)])

RECURSIVE Pow10(_)
Pow10(k) == IF k = 0 THEN 1 ELSE 10 * Pow10(k - 1)

AllDigits(str) == \A i \in 1..Len(str) : str[i] \in DigitChars

\* Number(str) for a decimal literal [-]digits[.digits]; '' is 0, other text NaN
ToNumber(str) ==
  IF Len(str) = 0 THEN Zero
  ELSE LET neg == str[1] = "-"
           body == IF neg THEN Tail(str) ELSE str
           dots == {i \in 1..Len(body) : body[i] = "."}
           ip == IF dots = {} THEN body ELSE SubSeq(body, 1, SetMax(dots) - 1)
           fp == IF dots = {} THEN <<>> ELSE SubSeq(body, SetMax(dots) + 1, Len(body))
       IN IF Cardinality(dots) > 1 \/ ~AllDigits(ip) \/ ~AllDigits(fp)
             \/ Len(ip) + Len(fp) = 0
          THEN NaN
          ELSE LET mag == Rat(DigitsToNat(ip \o fp), Pow10(Len(fp)))
               IN IF neg THEN RNeg(mag) ELSE mag

\* a JavaScript value held in the input record: a number, a string or undefined
NumV(x) == [t |-> "number", num |-> x, str |-> <<>>]

StrV(str) == [t |-> "string", num |-> Zero, str |-> str]

Undefined == [t |-> "undefined", num |-> Zero, str |-> <<>>]

Blank == StrV(<<>>)

IsBlank(v) == v.t = "string" /\ v.str = <<>>

\* typeof v === 'number' ? v : 0
NumOrZero(v) == IF v.t = "number" THEN v.num ELSE Zero

\* the implicit ToNumber of an arithmetic operand
Coerce(v) ==
  IF v.t = "number" THEN v.num
  ELSE IF v.t = "string" THEN ToNumber(v.str)
  ELSE NaN

\* v === 0
StrictlyZero(v) == v.t = "number" /\ REq(v.num, Zero)

\* ------------------------------------------------------------------------
\* State
\* ------------------------------------------------------------------------

VARIABLES inputs, results, mounted, edits

vars == <<inputs, results, mounted, edits>>

NumericFields ==
  {"purchasePrice", "downPayment", "closingCosts", "renovationCosts",
   "interestRate", "amortizationPeriod", "term", "monthlyRent", "vacancyRate",
   "annualRentIncrease", "propertyTaxes", "insurance", "condoFees",
   "propertyManagement", "maintenance", "utilities", "otherExpenses"}

FieldNames == NumericFields \cup {"downPaymentType", "propertyType"}

\* useState initial value of inputs
InitialInputs ==
  [f \in FieldNames |->
     CASE f = "purchasePrice" -> NumV(Num(500000))
       [] f = "downPayment" -> NumV(Num(100000))
       [] f = "downPaymentType" -> StrV(<<"amount">>)
       [] f = "closingCosts" -> NumV(Num(5000))
       [] f = "renovationCosts" -> NumV(Num(0))
       [] f = "interestRate" -> NumV(Rat(55, 10))
       [] f = "amortizationPeriod" -> NumV(Num(25))
       [] f = "term" -> NumV(Num(5))
       [] f = "monthlyRent" -> NumV(Num(2500))
       [] f = "vacancyRate" -> NumV(Num(5))
       [] f = "annualRentIncrease" -> NumV(Num(2))
       [] f = "propertyTaxes" -> NumV(Num(5000))
       [] f = "insurance" -> NumV(Num(1500))
       [] f = "condoFees" -> NumV(Num(0))
       [] f = "propertyManagement" -> NumV(Num(8))
       [] f = "maintenance" -> NumV(Num(5))
       [] f = "utilities" -> NumV(Num(0))
       [] f = "otherExpenses" -> NumV(Num(0))
       [] f = "propertyType" -> Undefined]

\* useState initial value of results
InitialResults ==
  [mortgageAmount |-> Zero, downPaymentPercent |-> Zero, totalMortgage |-> Zero,
   monthlyPayment |-> Zero, monthlyRentAfterVacancy |-> Zero,
   monthlyExpenses |-> Zero, monthlyCashFlow |-> Zero, annualCashFlow |-> Zero,
   totalMonthlyExpenses |-> Zero, cashOnCash |-> Zero, capRate |-> Zero,
   grossRentMultiplier |-> Zero, breakEvenOccupancy |-> Zero,
   netOperatingIncome |-> Zero, expenseRatio |-> Zero,
   cashFlowSchedule |-> <<>>]

\* ------------------------------------------------------------------------
\* The calculation engine
\* ------------------------------------------------------------------------

ScheduleYears == 30

\* faulty variant: the interest of one month on the whole principal
AmortizedPaymentInterestOnly(principal, monthlyInterestRate, growth) ==
  RDiv(RMul(principal, RMul(monthlyInterestRate, growth)), growth)

\* the payment of the standard formula, growth being (1 + r)^totalPayments
AmortizedPayment(principal, monthlyInterestRate, growth) ==
  RDiv(RMul(principal, RMul(monthlyInterestRate, growth)), RSub(growth, Num(1)))

\* faulty variant: the standard formula whatever the rate
PaymentOverStandard(principal, annualInterestRate, monthlyInterestRate, totalPayments) ==
  AmortizedPayment(principal, monthlyInterestRate,
                   MathPow(RAdd(Num(1), monthlyInterestRate), totalPayments))

PaymentOver(principal, annualInterestRate, monthlyInterestRate, totalPayments) ==
  IF StrictlyZero(annualInterestRate)
  THEN RDiv(principal, totalPayments)
  ELSE AmortizedPayment(principal, monthlyInterestRate,
                        MathPow(RAdd(Num(1), monthlyInterestRate), totalPayments))

\* faulty variant: no branch for a rate of 0
MonthlyPaymentNoZeroBranch(principal, annualInterestRate, amortizationYears) ==
  AmortizedPayment(principal, RDiv(RDiv(Coerce(annualInterestRate), Num(100)), Num(12)),
                   MathPow(RAdd(Num(1), RDiv(RDiv(Coerce(annualInterestRate), Num(100)),
                                             Num(12))),
                           RMul(Coerce(amortizationYears), Num(12))))

\* faulty variant: one payment a year over the amortization
MonthlyPaymentYearly(principal, annualInterestRate, amortizationYears) ==
  PaymentOver(principal, annualInterestRate,
              RDiv(RDiv(Coerce(annualInterestRate), Num(100)), Num(12)),
              Coerce(amortizationYears))

MonthlyPayment(principal, annualInterestRate, amortizationYears) ==
  PaymentOver(principal, annualInterestRate,
              RDiv(RDiv(Coerce(annualInterestRate), Num(100)), Num(12)),
              RMul(Coerce(amortizationYears), Num(12)))

\* faulty variant: the cash flow before the mortgage payment
ScheduleEntryBeforeDebt(year, annualRent, annualOperatingExpenses, annualMortgagePayment) ==
  [year |-> year,
   rentalIncome |-> annualRent,
   operatingExpenses |-> annualOperatingExpenses,
   mortgagePayment |-> annualMortgagePayment,
   cashFlow |-> RSub(annualRent, annualOperatingExpenses)]

\* faulty variant: years counted from 0
ScheduleEntryFromZero(year, annualRent, annualOperatingExpenses, annualMortgagePayment) ==
  [year |-> year - 1,
   rentalIncome |-> annualRent,
   operatingExpenses |-> annualOperatingExpenses,
   mortgagePayment |-> annualMortgagePayment,
   cashFlow |-> RSub(RSub(annualRent, annualOperatingExpenses), annualMortgagePayment)]

\* the record pushed for one year
ScheduleEntry(year, annualRent, annualOperatingExpenses, annualMortgagePayment) ==
  [year |-> year,
   rentalIncome |-> annualRent,
   operatingExpenses |-> annualOperatingExpenses,
   mortgagePayment |-> annualMortgagePayment,
   cashFlow |-> RSub(RSub(annualRent, annualOperatingExpenses), annualMortgagePayment)]

\* faulty variant: the rent grown by the 2% of the expenses
ScheduleStepInflationOnly(year, run, annualMortgagePayment, annualRentIncrease) ==
  [schedule |->
     Append(run.schedule,
            ScheduleEntry(year, run.annualRent, run.annualOperatingExpenses,
                          annualMortgagePayment)),
   annualRent |-> RMul(run.annualRent, Rat(102, 100)),
   annualOperatingExpenses |-> RMul(run.annualOperatingExpenses, Rat(102, 100))]

\* one pass of the loop body: the year's record is pushed onto run.schedule,
\* then annualRent and annualOperatingExpenses grow for the next year
ScheduleStep(year, run, annualMortgagePayment, annualRentIncrease) ==
  [schedule |->
     Append(run.schedule,
            ScheduleEntry(year, run.annualRent, run.annualOperatingExpenses,
                          annualMortgagePayment)),
   annualRent |->
     RMul(run.annualRent, RAdd(Num(1), RDiv(Coerce(annualRentIncrease), Num(100)))),
   annualOperatingExpenses |-> RMul(run.annualOperatingExpenses, Rat(102, 100))]

\* the loop of generateCashFlowSchedule over the years lo..hi, entered with
\* run: the schedule pushed so far (lo - 1 records) and the running
\* annualRent and annualOperatingExpenses.  The years are run as two halves,
\* the second entered with what the first leaves.
RECURSIVE ScheduleLoop(_, _, _, _, _)
ScheduleLoop(lo, hi, run, annualMortgagePayment, annualRentIncrease) ==
  IF lo > hi \/ Len(run.schedule) # lo - 1 THEN run
  ELSE IF lo = hi THEN ScheduleStep(lo, run, annualMortgagePayment, annualRentIncrease)
  ELSE ScheduleLoop((lo + hi) \div 2 + 1, hi,
                    ScheduleLoop(lo, (lo + hi) \div 2, run, annualMortgagePayment,
                                 annualRentIncrease),
                    annualMortgagePayment, annualRentIncrease)

ScheduleWith(monthlyPayment, monthlyRentAfterVacancy, monthlyOperatingExpenses, annualRentIncrease) ==
  [monthlyPayment |-> monthlyPayment,
   cashFlowSchedule |->
     ScheduleLoop(1, ScheduleYears,
                  [schedule |-> <<>>,
                   annualRent |-> RMul(monthlyRentAfterVacancy, Num(12)),
                   annualOperatingExpenses |-> RMul(monthlyOperatingExpenses, Num(12))],
                  RMul(monthlyPayment, Num(12)), annualRentIncrease).schedule]

generateCashFlowSchedule(principal, annualInterestRate, amortizationYears, monthlyRentAfterVacancy, monthlyOperatingExpenses, annualRentIncrease) ==
  ScheduleWith(MonthlyPayment(principal, annualInterestRate, amortizationYears),
               monthlyRentAfterVacancy, monthlyOperatingExpenses, annualRentIncrease)

MinimumDownPaymentPercent == 20

PurchasePrice(in) == NumOrZero(in["purchasePrice"])

\* downPaymentAmount as stated by the user, in either mode
DownPaymentAmount(in) ==
  IF in["downPaymentType"].str = <<"amount">>
  THEN NumOrZero(in["downPayment"])
  ELSE RDiv(RMul(PurchasePrice(in), NumOrZero(in["downPayment"])), Num(100))

\* faulty variant: a floor of 10% of the purchase price
MinimumDownPaymentTenth(in) == RMul(RDiv(Num(10), Num(100)), PurchasePrice(in))

MinimumDownPayment(in) ==
  RMul(RDiv(Num(MinimumDownPaymentPercent), Num(100)), PurchasePrice(in))

\* faulty variant: the stated down payment, no floor
ActualDownPaymentStated(in) == DownPaymentAmount(in)

ActualDownPayment(in) == MathMax(DownPaymentAmount(in), MinimumDownPayment(in))

ActualDownPaymentPercent(in) ==
  RMul(RDiv(ActualDownPayment(in), PurchasePrice(in)), Num(100))

MortgageAmount(in) == RSub(PurchasePrice(in), ActualDownPayment(in))

\* faulty variant: the rent after the vacancy allowance
MonthlyRentNet(in) ==
  RMul(NumOrZero(in["monthlyRent"]),
       RSub(Num(1), RDiv(NumOrZero(in["vacancyRate"]), Num(100))))

MonthlyRent(in) == NumOrZero(in["monthlyRent"])

\* faulty variant: the rent without the vacancy allowance
MonthlyRentGross(in) == MonthlyRent(in)

MonthlyRentAfterVacancy(in) ==
  RMul(MonthlyRent(in), RSub(Num(1), RDiv(NumOrZero(in["vacancyRate"]), Num(100))))

\* faulty variant: the management fee taken on the rent after vacancy
MonthlyOperatingExpensesFeeOnNetRent(in) ==
  RAdd(RAdd(RAdd(RAdd(RAdd(RAdd(RDiv(NumOrZero(in["propertyTaxes"]), Num(12)),
                                RDiv(NumOrZero(in["insurance"]), Num(12))),
                           NumOrZero(in["condoFees"])),
                      RDiv(RMul(MonthlyRentAfterVacancy(in),
                                NumOrZero(in["propertyManagement"])), Num(100))),
                 RDiv(RMul(MonthlyRent(in), NumOrZero(in["maintenance"])), Num(100))),
            NumOrZero(in["utilities"])),
       NumOrZero(in["otherExpenses"]))

\* faulty variant: management and maintenance taken on the rent after vacancy
MonthlyOperatingExpensesOnNetRent(in) ==
  RAdd(RAdd(RAdd(RAdd(RAdd(RAdd(RDiv(NumOrZero(in["propertyTaxes"]), Num(12)),
                                RDiv(NumOrZero(in["insurance"]), Num(12))),
                           NumOrZero(in["condoFees"])),
                      RDiv(RMul(MonthlyRentAfterVacancy(in),
                                NumOrZero(in["propertyManagement"])), Num(100))),
                 RDiv(RMul(MonthlyRentAfterVacancy(in), NumOrZero(in["maintenance"])),
                      Num(100))),
            NumOrZero(in["utilities"])),
       NumOrZero(in["otherExpenses"]))

\* propertyTaxesMonthly + insuranceMonthly + condoFees + propertyManagementFee
\* + maintenanceCosts + utilities + otherExpenses
MonthlyOperatingExpenses(in) ==
  RAdd(RAdd(RAdd(RAdd(RAdd(RAdd(RDiv(NumOrZero(in["propertyTaxes"]), Num(12)),
                                RDiv(NumOrZero(in["insurance"]), Num(12))),
                           NumOrZero(in["condoFees"])),
                      RDiv(RMul(MonthlyRent(in), NumOrZero(in["propertyManagement"])),
                           Num(100))),
                 RDiv(RMul(MonthlyRent(in), NumOrZero(in["maintenance"])), Num(100))),
            NumOrZero(in["utilities"])),
       NumOrZero(in["otherExpenses"]))

\* faulty variant: the stated down payment in the investment, no floor
InitialInvestmentStated(in) ==
  RAdd(RAdd(DownPaymentAmount(in), NumOrZero(in["closingCosts"])),
       NumOrZero(in["renovationCosts"]))

InitialInvestment(in) ==
  RAdd(RAdd(ActualDownPayment(in), NumOrZero(in["closingCosts"])),
       NumOrZero(in["renovationCosts"]))

TotalMonthlyExpenses(monthlyOperatingExpenses, monthlyPayment) ==
  RAdd(monthlyOperatingExpenses, monthlyPayment)

\* faulty variant: the difference taken the wrong way round
MonthlyCashFlowReversed(monthlyRentAfterVacancy, totalMonthlyExpenses) ==
  RSub(totalMonthlyExpenses, monthlyRentAfterVacancy)

MonthlyCashFlow(monthlyRentAfterVacancy, totalMonthlyExpenses) ==
  RSub(monthlyRentAfterVacancy, totalMonthlyExpenses)

AnnualCashFlow(monthlyCashFlow) == RMul(monthlyCashFlow, Num(12))

\* faulty variant: the division without its guard
CashOnCashUnguarded(annualCashFlow, initialInvestment) ==
  RMul(RDiv(annualCashFlow, initialInvestment), Num(100))

CashOnCash(annualCashFlow, initialInvestment) ==
  IF RGt(initialInvestment, Zero)
  THEN RMul(RDiv(annualCashFlow, initialInvestment), Num(100))
  ELSE Zero

\* faulty variant: the income of one month
NetOperatingIncomeMonthly(monthlyRentAfterVacancy, monthlyOperatingExpenses) ==
  RSub(monthlyRentAfterVacancy, monthlyOperatingExpenses)

\* annualRentalIncome - annualOperatingExpenses
NetOperatingIncome(monthlyRentAfterVacancy, monthlyOperatingExpenses) ==
  RSub(RMul(monthlyRentAfterVacancy, Num(12)), RMul(monthlyOperatingExpenses, Num(12)))

CapRate(netOperatingIncome, purchasePrice) ==
  RMul(RDiv(netOperatingIncome, purchasePrice), Num(100))

GrossRentMultiplier(purchasePrice, monthlyRent) ==
  RDiv(purchasePrice, RMul(monthlyRent, Num(12)))

ExpenseRatio(monthlyOperatingExpenses, monthlyRent) ==
  RMul(RDiv(RMul(monthlyOperatingExpenses, Num(12)), RMul(monthlyRent, Num(12))),
       Num(100))

\* faulty variant: the ratio left as a fraction of 1
BreakEvenOccupancyFraction(totalMonthlyExpenses, monthlyRent) ==
  RDiv(totalMonthlyExpenses, monthlyRent)

BreakEvenOccupancy(totalMonthlyExpenses, monthlyRent) ==
  RMul(RDiv(totalMonthlyExpenses, monthlyRent), Num(100))

\* cashFlowData of calculateResults
CashFlowData(in) ==
  generateCashFlowSchedule(MortgageAmount(in), in["interestRate"],
                           in["amortizationPeriod"], MonthlyRentAfterVacancy(in),
                           MonthlyOperatingExpenses(in), in["annualRentIncrease"])

\* the record calculateResults hands to setResults, given its cashFlowData
ResultsWith(in, cashFlowData) ==
  [mortgageAmount |-> MortgageAmount(in),
   downPaymentPercent |-> ActualDownPaymentPercent(in),
   totalMortgage |-> MortgageAmount(in),
   monthlyPayment |-> cashFlowData.monthlyPayment,
   monthlyRentAfterVacancy |-> MonthlyRentAfterVacancy(in),
   monthlyExpenses |-> MonthlyOperatingExpenses(in),
   monthlyCashFlow |->
     MonthlyCashFlow(MonthlyRentAfterVacancy(in),
                     TotalMonthlyExpenses(MonthlyOperatingExpenses(in),
                                          cashFlowData.monthlyPayment)),
   annualCashFlow |->
     AnnualCashFlow(
       MonthlyCashFlow(MonthlyRentAfterVacancy(in),
                       TotalMonthlyExpenses(MonthlyOperatingExpenses(in),
                                            cashFlowData.monthlyPayment))),
   totalMonthlyExpenses |->
     TotalMonthlyExpenses(MonthlyOperatingExpenses(in), cashFlowData.monthlyPayment),
   cashOnCash |->
     CashOnCash(
       AnnualCashFlow(
         MonthlyCashFlow(MonthlyRentAfterVacancy(in),
                         TotalMonthlyExpenses(MonthlyOperatingExpenses(in),
                                              cashFlowData.monthlyPayment))),
       InitialInvestment(in)),
   capRate |->
     CapRate(NetOperatingIncome(MonthlyRentAfterVacancy(in),
                                MonthlyOperatingExpenses(in)),
             PurchasePrice(in)),
   grossRentMultiplier |-> GrossRentMultiplier(PurchasePrice(in), MonthlyRent(in)),
   breakEvenOccupancy |->
     BreakEvenOccupancy(TotalMonthlyExpenses(MonthlyOperatingExpenses(in),
                                             cashFlowData.monthlyPayment),
                        MonthlyRent(in)),
   netOperatingIncome |->
     NetOperatingIncome(MonthlyRentAfterVacancy(in), MonthlyOperatingExpenses(in)),
   expenseRatio |-> ExpenseRatio(MonthlyOperatingExpenses(in), MonthlyRent(in)),
   cashFlowSchedule |-> cashFlowData.cashFlowSchedule]

calculateResults(in) == ResultsWith(in, CashFlowData(in))

AnyBlank(in) == \E f \in DOMAIN in : IsBlank(in[f])

\* faulty variant: the calculation run whatever the fields hold
useEffectAlways(in) == calculateResults(in)

\* faulty variant: the mortgage total accumulated over the calculations
useEffectAccumulating(in) ==
  IF AnyBlank(in) THEN results
  ELSE [calculateResults(in) EXCEPT !.totalMortgage = RAdd(@, results.totalMortgage)]

\* the effect on [inputs]: results after committing the input record in
useEffect(in) == IF AnyBlank(in) THEN results ELSE calculateResults(in)

\* the decimal digits of a natural number
DigitOf(k) == CHOOSE c \in DigitChars : DigitVal(c) = k

RECURSIVE NatToDigits(_)
NatToDigits(k) ==
  IF k < 10 THEN <<DigitOf(k)>> ELSE Append(NatToDigits(k \div 10), DigitOf(k % 10))

\* String(v) of a string or of a whole number (the costs added to a string
\* are whole numbers in every input record drawn here)
ToText(v) ==
  IF v.t = "string" THEN v.str
  ELSE IF v.t = "number" /\ IsWhole(v.num)
  THEN (IF v.num.s < 0 THEN <<"-">> ELSE <<>>) \o NatToDigits(BToNat(v.num.n))
  ELSE CHOOSE t \in {} : TRUE

\* a + b: the sum of two numbers, the concatenation when one is a string
JsPlus(a, b) ==
  IF a.t = "number" /\ b.t = "number" THEN NumV(RAdd(a.num, b.num))
  ELSE StrV(ToText(a) \o ToText(b))

\* the number formatted on the Initial Investment card
InitialInvestmentShown ==
  Coerce(JsPlus(JsPlus(inputs["downPayment"], inputs["closingCosts"]),
                inputs["renovationCosts"]))

\* the condition under which the minimum down payment warning is rendered
WarningShown == RLt(results.downPaymentPercent, Num(20))

Percent(in) == in["downPaymentType"].str = <<"percent">>

\* faulty variant: the percent taken as a fraction of 1
SwitchedDownPaymentAsFraction(value, purchasePrice, downPayment) ==
  IF value = <<"percent">>
  THEN MathRound(RDiv(downPayment, purchasePrice))
  ELSE RMul(MathRound(RDiv(RMul(purchasePrice, downPayment), Num(100))), Num(100))

\* updatedInputs.downPayment when downPaymentType is switched to value
SwitchedDownPayment(value, purchasePrice, downPayment) ==
  IF value = <<"percent">>
  THEN MathRound(RMul(RDiv(downPayment, purchasePrice), Num(100)))
  ELSE RMul(MathRound(RDiv(RMul(purchasePrice, RDiv(downPayment, Num(100))),
                           Num(100))),
            Num(100))

\* updatedInputs of handleInputChange(name, value) on the input record prev,
\* value the field's text
UpdatedInputsOf(prev, name, value) ==
  LET typed == IF prev[name].t = "number"
               THEN NumV(ToNumber(StripLeadingZeros(value)))
               ELSE StrV(value)
      updatedInputs == [prev EXCEPT ![name] = typed]
      purchasePrice == NumOrZero(prev["purchasePrice"])
      downPayment == NumOrZero(prev["downPayment"])
  IN IF name = "purchasePrice" /\ Percent(prev)
     THEN [updatedInputs EXCEPT !["downPayment"] =
             NumV(RMul(MathRound(RDiv(RMul(NumOrZero(typed),
                                           RDiv(downPayment, Num(100))),
                                      Num(100))),
                       Num(100)))]
     ELSE IF name = "downPayment"
     THEN LET numValue == Coerce(typed)
              limit == IF Percent(prev) THEN Num(100) ELSE purchasePrice
          IN [updatedInputs EXCEPT !["downPayment"] =
                NumV(IF RGt(numValue, limit) THEN limit ELSE numValue)]
     ELSE IF name = "downPaymentType"
     THEN [updatedInputs EXCEPT !["downPayment"] =
             NumV(SwitchedDownPayment(value, purchasePrice, downPayment))]
     ELSE updatedInputs

UpdatedInputs(name, value) == UpdatedInputsOf(inputs, name, value)

\* number of handler invocations explored
MaxEdits == 2

\* the fields edited, the texts a user types into them and the options picked
EditFields ==
  {"purchasePrice", "downPayment", "downPaymentType", "propertyType",
   "interestRate", "amortizationPeriod", "monthlyRent", "vacancyRate"}

TypedText(name) ==
  CASE name = "purchasePrice" -> {<<>>, <<"0">>, <<"3", "0", "0", "0", "0", "0">>}
    [] name = "downPayment" -> {<<>>, <<"1", "0">>, <<"5", "0", "0", "0", "0">>}
    [] name = "downPaymentType" -> {<<"amount">>, <<"percent">>} \ {inputs[name].str}
    [] name = "propertyType" -> {<<"condo">>}
    [] name = "interestRate" -> {<<>>, <<"0">>}
    [] name = "amortizationPeriod" -> {<<>>, <<"1">>, <<"0", "1">>}
    [] name = "monthlyRent" -> {<<>>, <<"0">>, <<"2", "0", "0", "0">>}
    [] name = "vacancyRate" -> {<<>>, <<"1", "0">>}

Init ==
  /\ inputs = InitialInputs
  /\ results = InitialResults
  /\ mounted = FALSE
  /\ edits = 0

\* first render: the effect runs once on the initial inputs
Mount ==
  /\ ~mounted
  /\ mounted' = TRUE
  /\ results' = useEffect(inputs)
  /\ UNCHANGED <<inputs, edits>>

\* onChange of a field, followed by the effect on the new inputs
handleInputChange(name, value) ==
  /\ mounted
  /\ edits < MaxEdits
  /\ edits' = edits + 1
  /\ inputs' = IF value = <<>> THEN [inputs EXCEPT ![name] = Blank]
               ELSE UpdatedInputs(name, value)
  /\ results' = useEffect(inputs')
  /\ UNCHANGED mounted

\* faulty variant: the blur of a blank field fills every blank field
BlurredInputsEveryBlank(prev, name) ==
  IF IsBlank(prev[name])
  THEN [f \in DOMAIN prev |-> IF IsBlank(prev[f]) THEN NumV(Zero) ELSE prev[f]]
  ELSE prev

\* the input record after handleBlur(name) on the input record prev
BlurredInputs(prev, name) ==
  IF IsBlank(prev[name]) THEN [prev EXCEPT ![name] = NumV(Zero)] ELSE prev

\* faulty variant: the blur fills the field and the results are left as they were
handleBlurKeepingResults(name) ==
  /\ mounted
  /\ edits < MaxEdits
  /\ IsBlank(inputs[name])
  /\ edits' = edits + 1
  /\ inputs' = [inputs EXCEPT ![name] = NumV(Zero)]
  /\ UNCHANGED <<results, mounted>>

\* onBlur of a numeric field left blank, followed by the effect on the new
\* inputs; the blur of a field that is not blank changes nothing
handleBlur(name) ==
  /\ mounted
  /\ edits < MaxEdits
  /\ IsBlank(inputs[name])
  /\ edits' = edits + 1
  /\ inputs' = BlurredInputs(inputs, name)
  /\ results' = useEffect(inputs')
  /\ UNCHANGED mounted

Next ==
  \/ Mount
  \/ \E name \in EditFields : \E value \in TypedText(name) : handleInputChange(name, value)
  \/ \E name \in NumericFields : handleBlur(name)

Spec == Init /\ [][Next]_vars

\* ------------------------------------------------------------------------
\* The engine on its own: one calculation on each input record of a grid
\* ------------------------------------------------------------------------

GridPurchasePrice == {Num(0), Num(300000), Num(500000)}

GridDownPayment ==
  {<<"amount", Num(50000)>>, <<"amount", Num(100000)>>, <<"amount", Num(150000)>>,
   <<"percent", Num(0)>>, <<"percent", Num(10)>>, <<"percent", Num(35)>>}

GridClosingCosts == {Num(0), Num(5000)}

GridInterestRate == {Num(0), Rat(55, 10)}

GridAmortizationPeriod == {Num(1), Num(25)}

GridInputs ==
  {[InitialInputs EXCEPT !["purchasePrice"] = NumV(pp),
                         !["downPaymentType"] = StrV(<<dp[1]>>),
                         !["downPayment"] = NumV(dp[2]),
                         !["closingCosts"] = NumV(cc),
                         !["interestRate"] = NumV(ir),
                         !["amortizationPeriod"] = NumV(ap)] :
     pp \in GridPurchasePrice, dp \in GridDownPayment, cc \in GridClosingCosts,
     ir \in GridInterestRate, ap \in GridAmortizationPeriod}

InitCalc ==
  /\ inputs \in GridInputs
  /\ results = InitialResults
  /\ mounted = FALSE
  /\ edits = 0

NextCalc == Mount

SpecCalc == InitCalc /\ [][NextCalc]_vars

\* ------------------------------------------------------------------------
\* The component started on a grid of input records in amount mode, the
\* down payment type then switched back and forth
\* ------------------------------------------------------------------------

TripPurchasePrice == {Num(300000), Num(500000)}

TripDownPayment ==
  {Num(0), Num(12345), Num(50000), Num(74999), Num(100000), Num(125000),
   Num(150000), Num(300000)}

TripRentIncrease == {Num(0), Num(5)}

TripInputs ==
  {[InitialInputs EXCEPT !["purchasePrice"] = NumV(pp),
                         !["downPayment"] = NumV(dp),
                         !["annualRentIncrease"] = NumV(ri)] :
     pp \in TripPurchasePrice, dp \in TripDownPayment, ri \in TripRentIncrease}

InitTrip ==
  /\ inputs \in TripInputs
  /\ results = InitialResults
  /\ mounted = FALSE
  /\ edits = 0

NextTrip ==
  \/ Mount
  \/ \E value \in TypedText("downPaymentType") :
       handleInputChange("downPaymentType", value)

SpecTrip == InitTrip /\ [][NextTrip]_vars

\* ------------------------------------------------------------------------
\* Properties of the engine (SpecCalc) and of the component (Spec)
\* ------------------------------------------------------------------------

\* the value of a numeric field of the input record
Field(name) == inputs[name].num

AmountMode == inputs["downPaymentType"].str = <<"amount">>

PercentMode == inputs["downPaymentType"].str = <<"percent">>

\* 20% of the purchase price of the input record
FifthOfPrice == RDiv(RMul(Num(20), Field("purchasePrice")), Num(100))

\* the down payment the user states, as an amount
StatedAmount ==
  IF AmountMode THEN Field("downPayment")
  ELSE RDiv(RMul(Field("purchasePrice"), Field("downPayment")), Num(100))

\* |x - target| <= half a cent
ToTheCent(x, target) ==
  /\ RLe(RSub(x, target), Rat(5, 1000))
  /\ RLe(RSub(target, x), Rat(5, 1000))

\* C1: for purchasePrice > 0, in amount and in percent mode, the reported
\* downPaymentPercent is at least 20 and equals
\* max(stated amount, 20% of purchasePrice) / purchasePrice * 100.
C1_EffectivePercent ==
  mounted /\ RGt(Field("purchasePrice"), Zero)
    => /\ RGe(results.downPaymentPercent, Num(20))
       /\ REq(results.downPaymentPercent,
              RMul(RDiv(MathMax(StatedAmount, FifthOfPrice), Field("purchasePrice")),
                   Num(100)))

\* 10% stated in percent mode is reported as 20%
C1_Witness ==
  /\ mounted
  /\ PercentMode
  /\ REq(Field("downPayment"), Num(10))
  /\ REq(Field("purchasePrice"), Num(300000))
  /\ REq(results.downPaymentPercent, Num(20))

\* the input record with the down payment stated at exactly 20%
AtTheFloor ==
  [inputs EXCEPT !["downPayment"] = NumV(IF PercentMode THEN Num(20) ELSE FifthOfPrice)]

\* C2: an input whose stated down payment is at or below 20% of purchasePrice
\* yields the result record of the same input with the down payment stated at
\* exactly 20%; any two such inputs therefore yield identical records.
C2_FloorEnforcement ==
  mounted /\ RLe(StatedAmount, FifthOfPrice) => results = calculateResults(AtTheFloor)

\* 50000 stated on 500000 is financed as 100000 down
C2_Witness ==
  /\ mounted
  /\ AmountMode
  /\ REq(Field("downPayment"), Num(50000))
  /\ REq(Field("purchasePrice"), Num(500000))
  /\ REq(results.mortgageAmount, Num(400000))

\* C3: monthlyCashFlow = monthlyRentAfterVacancy - monthlyExpenses -
\* monthlyPayment, totalMonthlyExpenses = monthlyExpenses + monthlyPayment and
\* annualCashFlow = monthlyCashFlow * 12 in every result of a calculation.
C3_CashFlowIdentities ==
  mounted
    => /\ REq(results.monthlyCashFlow,
              RSub(RSub(results.monthlyRentAfterVacancy, results.monthlyExpenses),
                   results.monthlyPayment))
       /\ REq(results.totalMonthlyExpenses,
              RAdd(results.monthlyExpenses, results.monthlyPayment))
       /\ REq(results.annualCashFlow, RMul(results.monthlyCashFlow, Num(12)))

\* a calculation with a mortgage payment and a negative cash flow
C3_Witness ==
  /\ mounted
  /\ RGt(results.monthlyPayment, Zero)
  /\ RGt(results.monthlyExpenses, Zero)
  /\ RLt(results.annualCashFlow, Zero)

\* C4: the cashFlowSchedule of a calculation has exactly 30 records, with
\* years 1, 2, ..., 30 in order, each with mortgagePayment equal to
\* monthlyPayment * 12, the years after amortizationPeriod included.
C4_Schedule ==
  mounted
    => /\ Len(results.cashFlowSchedule) = 30
       /\ \A i \in 1..30 :
            /\ results.cashFlowSchedule[i].year = i
            /\ REq(results.cashFlowSchedule[i].mortgagePayment,
                   RMul(results.monthlyPayment, Num(12)))

\* a mortgage amortized over one year still paid in year 30
C4_Witness ==
  /\ mounted
  /\ REq(Field("amortizationPeriod"), Num(1))
  /\ Len(results.cashFlowSchedule) = 30
  /\ RGt(results.cashFlowSchedule[30].mortgagePayment, Zero)

ScalarResults ==
  {results.mortgageAmount, results.downPaymentPercent, results.totalMortgage,
   results.monthlyPayment, results.monthlyRentAfterVacancy, results.monthlyExpenses,
   results.monthlyCashFlow, results.annualCashFlow, results.totalMonthlyExpenses,
   results.cashOnCash, results.capRate, results.grossRentMultiplier,
   results.breakEvenOccupancy, results.netOperatingIncome, results.expenseRatio}

\* no NaN and no Infinity anywhere in the result record
FiniteResults ==
  /\ \A x \in ScalarResults : IsFinite(x)
  /\ \A i \in 1..Len(results.cashFlowSchedule) :
       /\ IsFinite(results.cashFlowSchedule[i].rentalIncome)
       /\ IsFinite(results.cashFlowSchedule[i].operatingExpenses)
       /\ IsFinite(results.cashFlowSchedule[i].mortgagePayment)
       /\ IsFinite(results.cashFlowSchedule[i].cashFlow)

\* C5: with purchasePrice <= 0 or monthlyRent <= 0 in the committed input
\* record, the component never holds a result record with a non-finite value.
C5_NoNonFiniteResult ==
  /\ mounted
  /\ ~AnyBlank(inputs)
  /\ \/ RLe(Coerce(inputs["purchasePrice"]), Zero)
     \/ RLe(Coerce(inputs["monthlyRent"]), Zero)
  => FiniteResults

ZeroInvestmentCase ==
  /\ mounted
  /\ PercentMode
  /\ REq(Field("downPayment"), Zero)
  /\ REq(Field("closingCosts"), Zero)
  /\ REq(Field("renovationCosts"), Zero)
  /\ RGt(Field("purchasePrice"), Zero)

\* C6, as stated: in percent mode with downPayment = 0, closingCosts = 0,
\* renovationCosts = 0 and purchasePrice > 0 the cashOnCash is exactly 0.
C6_ZeroCashOnCash == ZeroInvestmentCase => REq(results.cashOnCash, Zero)

\* C6, amended: in that case the down payment is floored at 20% of
\* purchasePrice, the initial investment is that 20% and cashOnCash is
\* annualCashFlow / (20% of purchasePrice) * 100.
C6_CashOnCashOfTheFloor ==
  ZeroInvestmentCase
    => REq(results.cashOnCash,
           RMul(RDiv(results.annualCashFlow, FifthOfPrice), Num(100)))

\* nothing stated as invested, and a cashOnCash that is not 0
C6_Witness == ZeroInvestmentCase /\ ~REq(results.cashOnCash, Zero)

\* C7: with interestRate = 0 and amortizationPeriod >= 1 the monthlyPayment is
\* mortgageAmount / (amortizationPeriod * 12), a finite number: the standard
\* formula, 0/0 at this rate, is not the one taken.
C7_ZeroInterest ==
  /\ mounted
  /\ StrictlyZero(inputs["interestRate"])
  /\ RGe(Field("amortizationPeriod"), Num(1))
  => /\ IsFinite(results.monthlyPayment)
     /\ REq(results.monthlyPayment,
            RDiv(results.mortgageAmount, RMul(Field("amortizationPeriod"), Num(12))))

\* 400000 at 0% over 25 years: 300 payments of 1333.33...
C7_Witness ==
  /\ mounted
  /\ StrictlyZero(inputs["interestRate"])
  /\ REq(Field("amortizationPeriod"), Num(25))
  /\ REq(results.mortgageAmount, Num(400000))
  /\ REq(results.monthlyPayment, Rat(4000, 3))

\* C8: a calculation run again on an unchanged input record leaves the result
\* record as it was: the results do not depend on the previous results.
C8_Idempotent == [][mounted /\ inputs' = inputs => results' = results]_vars

\* amortizationPeriod edited twice to the number 1 ("1", then "01"): the
\* second calculation is run on the input record of the first
C8_Witness ==
  /\ mounted
  /\ edits = 2
  /\ inputs = [InitialInputs EXCEPT !["amortizationPeriod"] = NumV(Num(1))]
  /\ RGt(results.monthlyPayment, Zero)

OperatingExpensesScenario ==
  /\ mounted
  /\ REq(Field("purchasePrice"), Num(500000))
  /\ REq(Field("monthlyRent"), Num(2500))
  /\ REq(Field("propertyTaxes"), Num(5000))
  /\ REq(Field("insurance"), Num(1500))
  /\ REq(Field("propertyManagement"), Num(8))
  /\ REq(Field("maintenance"), Num(5))
  /\ REq(Field("condoFees"), Zero)
  /\ REq(Field("utilities"), Zero)
  /\ REq(Field("otherExpenses"), Zero)

\* C9, as stated: in the scenario the monthly operating expenses are 945.83
\* to the cent.
C9_OperatingExpensesAsStated ==
  OperatingExpensesScenario => ToTheCent(results.monthlyExpenses, Rat(94583, 100))

\* C9, amended: in the scenario the monthly operating expenses are
\* 5000/12 + 1500/12 + 200 + 125, which is 866.67 to the cent.
C9_OperatingExpenses ==
  OperatingExpensesScenario => ToTheCent(results.monthlyExpenses, Rat(86667, 100))

C9_Witness ==
  /\ OperatingExpensesScenario
  /\ REq(results.monthlyExpenses, Rat(10400, 12))

\* C10: for purchasePrice 500000, downPayment 100000 as an amount, monthlyRent
\* 2500 and vacancyRate 5 the effective down payment is 100000, exactly 20%,
\* the mortgageAmount 400000 and the monthlyRentAfterVacancy 2375.
C10_Normalization ==
  /\ mounted
  /\ AmountMode
  /\ REq(Field("purchasePrice"), Num(500000))
  /\ REq(Field("downPayment"), Num(100000))
  /\ REq(Field("monthlyRent"), Num(2500))
  /\ REq(Field("vacancyRate"), Num(5))
  => /\ REq(RSub(Field("purchasePrice"), results.mortgageAmount), Num(100000))
     /\ REq(results.downPaymentPercent, Num(20))
     /\ REq(results.mortgageAmount, Num(400000))
     /\ REq(results.monthlyRentAfterVacancy, Num(2375))

C10_Witness ==
  /\ mounted
  /\ AmountMode
  /\ REq(Field("downPayment"), Num(100000))
  /\ REq(Field("vacancyRate"), Num(5))
  /\ REq(results.monthlyRentAfterVacancy, Num(2375))
  /\ REq(results.totalMortgage, Num(400000))

\* |x - target| <= tol
Within(x, target, tol) == RLe(RSub(x, target), tol) /\ RLe(RSub(target, x), tol)

PaymentScenario ==
  /\ OperatingExpensesScenario
  /\ AmountMode
  /\ REq(Field("downPayment"), Num(100000))
  /\ REq(Field("interestRate"), Rat(55, 10))
  /\ REq(Field("amortizationPeriod"), Num(25))
  /\ REq(Field("vacancyRate"), Num(5))

\* C11, as stated: in the scenario (mortgage 400000 at 5.5% over 25 years) the
\* monthlyPayment is about 2459.14 and the monthlyCashFlow about -1029.97,
\* each read with a tolerance of one unit of currency.
C11_PaymentAsStated ==
  PaymentScenario
    => /\ Within(results.monthlyPayment, Rat(245914, 100), Num(1))
       /\ Within(results.monthlyCashFlow, RNeg(Rat(102997, 100)), Num(1))

\* C11, amended: in the scenario the monthlyPayment is 2456.35 and the
\* monthlyCashFlow -948.02, to the cent; the cash flow is negative.
C11_Payment ==
  PaymentScenario
    => /\ ToTheCent(results.monthlyPayment, Rat(245635, 100))
       /\ ToTheCent(results.monthlyCashFlow, RNeg(Rat(94802, 100)))
       /\ RLt(results.monthlyCashFlow, Zero)

C11_Witness ==
  /\ PaymentScenario
  /\ REq(results.mortgageAmount, Num(400000))
  /\ RGt(results.monthlyPayment, Num(2456))
  /\ RLt(results.monthlyPayment, Num(2457))

\* C12, as stated: after every change of the input record the stored results
\* are the calculation applied to the current inputs.
C12_AlwaysCurrent == mounted => results = calculateResults(inputs)

\* C12, amended: every change of the input record that leaves no field blank
\* replaces the results, as a whole, by the calculation applied to the new
\* inputs; a change that leaves a field blank keeps the previous results whole.
C12_Recomputed ==
  [][mounted' => results' = IF AnyBlank(inputs') THEN results
                            ELSE calculateResults(inputs')]_vars

\* 300000 typed as the purchase price: the results are those of the new record
C12_Witness ==
  /\ mounted
  /\ edits = 1
  /\ ~AnyBlank(inputs)
  /\ REq(Field("purchasePrice"), Num(300000))
  /\ REq(results.mortgageAmount, Num(200000))

\* C13: every non-blank value entered into a numeric field is stored as a
\* number, also when the field was blank just before the edit, so that the
\* calculation uses the entered value and not a substituted 0.
C13_EnteredValuesAreNumbers ==
  /\ \A f \in NumericFields : inputs[f].t = "string" => inputs[f].str = <<>>
  /\ mounted /\ ~AnyBlank(inputs) /\ RGt(Coerce(inputs["monthlyRent"]), Zero)
       => REq(results.grossRentMultiplier,
              RDiv(Coerce(inputs["purchasePrice"]),
                   RMul(Coerce(inputs["monthlyRent"]), Num(12))))

\* the stored downPayment after switching the input record to percent and
\* back to amount
RoundTrip ==
  UpdatedInputsOf(UpdatedInputsOf(inputs, "downPaymentType", <<"percent">>),
                  "downPaymentType", <<"amount">>)["downPayment"].num

\* amount mode, 0 <= downPayment <= purchasePrice, purchasePrice > 0
RoundTripCase ==
  /\ AmountMode
  /\ inputs["purchasePrice"].t = "number"
  /\ inputs["downPayment"].t = "number"
  /\ RGt(Field("purchasePrice"), Zero)
  /\ RGe(Field("downPayment"), Zero)
  /\ RLe(Field("downPayment"), Field("purchasePrice"))

\* C14, as stated: switching an amount A <= purchasePrice to percent and back
\* leaves the stored downPayment equal to A within rounding tolerance, read as
\* the step of 100 to which the amount is rounded.
C14_RoundTripAsStated == RoundTripCase => Within(RoundTrip, Field("downPayment"), Num(100))

\* C14, amended: the round trip leaves the stored downPayment within
\* 0.5% of purchasePrice plus 50 of A: the percent is rounded to a whole
\* number and the amount to a multiple of 100.
C14_RoundTrip ==
  RoundTripCase
    => Within(RoundTrip, Field("downPayment"),
              RAdd(RDiv(Field("purchasePrice"), Num(200)), Num(50)))

\* 50000 of 300000 switched to 17% and back: 51000
C14_Witness ==
  /\ mounted
  /\ edits = 2
  /\ AmountMode
  /\ REq(Field("purchasePrice"), Num(300000))
  /\ REq(Field("downPayment"), Num(51000))

\* C15: whenever the stated down payment is under 20% of purchasePrice the
\* minimum down payment warning is shown, while the results are those of a
\* down payment of 20%.
C15_WarningUnderTwenty ==
  /\ mounted
  /\ ~AnyBlank(inputs)
  /\ inputs["purchasePrice"].t = "number"
  /\ inputs["downPayment"].t = "number"
  /\ RGt(Field("purchasePrice"), Zero)
  /\ RLt(StatedAmount, FifthOfPrice)
  => /\ WarningShown
     /\ REq(results.mortgageAmount, RSub(Field("purchasePrice"), FifthOfPrice))

\* a calculation has run on an input record whose numeric fields are numbers
CalculatedOnNumbers ==
  /\ mounted
  /\ ~AnyBlank(inputs)
  /\ \A f \in NumericFields : inputs[f].t = "number"

\* C16: monthlyOperatingExpenses = propertyTaxes/12 + insurance/12 + condoFees
\* + monthlyRent*propertyManagement/100 + monthlyRent*maintenance/100 +
\* utilities + otherExpenses, the two percentages taken on the gross
\* monthlyRent: another vacancyRate leaves the expenses as they are.
C16_OperatingExpenses ==
  CalculatedOnNumbers
    => /\ REq(results.monthlyExpenses,
              RAdd(RAdd(RAdd(RAdd(RAdd(RAdd(RDiv(Field("propertyTaxes"), Num(12)),
                                            RDiv(Field("insurance"), Num(12))),
                                       Field("condoFees")),
                                  RDiv(RMul(Field("monthlyRent"),
                                            Field("propertyManagement")), Num(100))),
                             RDiv(RMul(Field("monthlyRent"), Field("maintenance")),
                                  Num(100))),
                        Field("utilities")),
                   Field("otherExpenses")))
       /\ \A v \in {Num(0), Num(50), Num(100)} :
            REq(MonthlyOperatingExpenses([inputs EXCEPT !["vacancyRate"] = NumV(v)]),
                results.monthlyExpenses)

\* the vacancy rate changed from 5 to 10: rent after vacancy 2250, expenses
\* still 10400/12
C16_Witness ==
  /\ CalculatedOnNumbers
  /\ REq(Field("vacancyRate"), Num(10))
  /\ REq(results.monthlyRentAfterVacancy, Num(2250))
  /\ REq(results.monthlyExpenses, Rat(10400, 12))

\* the floored down payment plus closingCosts plus renovationCosts
FlooredInvestment ==
  RAdd(RAdd(MathMax(StatedAmount, FifthOfPrice), Field("closingCosts")),
       Field("renovationCosts"))

\* C17: cashOnCash is annualCashFlow / initialInvestment * 100 when the
\* initialInvestment (floored down payment + closingCosts + renovationCosts)
\* is positive and 0 otherwise; it is never the outcome of a division by zero.
C17_CashOnCash ==
  mounted
    => /\ IsFinite(results.cashOnCash)
       /\ IF RGt(FlooredInvestment, Zero)
          THEN REq(results.cashOnCash,
                   RMul(RDiv(results.annualCashFlow, FlooredInvestment), Num(100)))
          ELSE REq(results.cashOnCash, Zero)

\* nothing invested (purchasePrice 0, 0% down, no costs), a cash flow that is
\* not 0, and a cashOnCash of 0
C17_Witness ==
  /\ mounted
  /\ REq(FlooredInvestment, Zero)
  /\ ~REq(results.annualCashFlow, Zero)
  /\ REq(results.cashOnCash, Zero)

\* C18: for purchasePrice > 0, monthlyRent > 0, amortizationPeriod >= 1 and
\* interestRate >= 0, a rate of 0 included, the calculation yields a result
\* record of which every field is a finite number.
C18_FiniteOnValidInputs ==
  /\ mounted
  /\ RGt(Field("purchasePrice"), Zero)
  /\ RGt(Field("monthlyRent"), Zero)
  /\ RGe(Field("amortizationPeriod"), Num(1))
  /\ RGe(Field("interestRate"), Zero)
  => FiniteResults

\* 0% over one year, nothing stated as down payment: finite results with a
\* payment
C18_Witness ==
  /\ mounted
  /\ StrictlyZero(inputs["interestRate"])
  /\ REq(Field("amortizationPeriod"), Num(1))
  /\ PercentMode
  /\ REq(Field("downPayment"), Zero)
  /\ RGt(Field("purchasePrice"), Zero)
  /\ RGt(results.monthlyPayment, Zero)
  /\ FiniteResults

\* C19: record 1 of the schedule has rentalIncome = monthlyRentAfterVacancy *
\* 12 and operatingExpenses = monthlyExpenses * 12, and every later record y
\* has rentalIncome[y] = rentalIncome[y-1] * (1 + annualRentIncrease/100) and
\* operatingExpenses[y] = operatingExpenses[y-1] * 1.02.
C19_ScheduleGrowth ==
  mounted
    => /\ REq(results.cashFlowSchedule[1].rentalIncome,
              RMul(results.monthlyRentAfterVacancy, Num(12)))
       /\ REq(results.cashFlowSchedule[1].operatingExpenses,
              RMul(results.monthlyExpenses, Num(12)))
       /\ \A y \in 2..30 :
            /\ REq(results.cashFlowSchedule[y].rentalIncome,
                   RMul(results.cashFlowSchedule[y - 1].rentalIncome,
                        RAdd(Num(1), RDiv(Field("annualRentIncrease"), Num(100)))))
            /\ REq(results.cashFlowSchedule[y].operatingExpenses,
                   RMul(results.cashFlowSchedule[y - 1].operatingExpenses,
                        Rat(102, 100)))

\* rent growing by 5% a year, expenses by 2%
C19_Witness ==
  /\ mounted
  /\ REq(Field("annualRentIncrease"), Num(5))
  /\ REq(results.cashFlowSchedule[1].rentalIncome, Num(28500))
  /\ REq(results.cashFlowSchedule[2].rentalIncome, Num(29925))
  /\ REq(results.cashFlowSchedule[2].operatingExpenses, Num(10608))

\* C20: every record y of the schedule has cashFlow[y] = rentalIncome[y] -
\* operatingExpenses[y] - mortgagePayment[y], and mortgagePayment is the same
\* in all 30 records.
C20_ScheduleCashFlow ==
  mounted
    => \A y \in 1..30 :
         /\ REq(results.cashFlowSchedule[y].cashFlow,
                RSub(RSub(results.cashFlowSchedule[y].rentalIncome,
                          results.cashFlowSchedule[y].operatingExpenses),
                     results.cashFlowSchedule[y].mortgagePayment))
         /\ REq(results.cashFlowSchedule[y].mortgagePayment,
                results.cashFlowSchedule[1].mortgagePayment)

\* a cash flow negative in year 1 and positive in year 30, under the same
\* mortgage payment
C20_Witness ==
  /\ mounted
  /\ RLt(results.cashFlowSchedule[1].cashFlow, Zero)
  /\ RGt(results.cashFlowSchedule[30].cashFlow, Zero)
  /\ RGt(results.cashFlowSchedule[30].mortgagePayment, Zero)

\* the balance of a loan after the payments lo..hi, entered with the balance
\* before payment lo: each month the balance bears interest at the monthly
\* rate and the payment is taken off.  The balance is carried at the
\* precision of Math.pow.
RECURSIVE BalanceAfter(_, _, _, _, _)
BalanceAfter(lo, hi, balance, rate, payment) ==
  IF lo > hi \/ IsNaN(balance) THEN balance
  ELSE IF lo = hi THEN RTrunc(RSub(RMul(balance, RAdd(Num(1), rate)), payment))
  ELSE BalanceAfter((lo + hi) \div 2 + 1, hi,
                    BalanceAfter(lo, (lo + hi) \div 2, balance, rate, payment),
                    rate, payment)

\* r = interestRate / 100 / 12
MonthlyRate == RDiv(RDiv(Field("interestRate"), Num(100)), Num(12))

\* n = amortizationPeriod * 12
NumberOfPayments == RMul(Field("amortizationPeriod"), Num(12))

\* C21: for interestRate # 0 the monthlyPayment is
\* mortgageAmount * (r * (1+r)^n) / ((1+r)^n - 1) with r = interestRate/100/12
\* and n = amortizationPeriod*12, and n such payments bring the balance of
\* the loan to zero (to a hundredth of a cent).
C21_AmortizedPayment ==
  /\ mounted
  /\ ~REq(Field("interestRate"), Zero)
  /\ RGe(Field("amortizationPeriod"), Num(1))
  => /\ REq(results.monthlyPayment,
            RDiv(RMul(results.mortgageAmount,
                      RMul(MonthlyRate, MathPow(RAdd(Num(1), MonthlyRate),
                                                NumberOfPayments))),
                 RSub(MathPow(RAdd(Num(1), MonthlyRate), NumberOfPayments), Num(1))))
     /\ Within(BalanceAfter(1, BToNat(NumberOfPayments.n), results.mortgageAmount,
                            MonthlyRate, results.monthlyPayment),
               Zero, Rat(1, 10000))

\* 400000 at 5.5% over 25 years: 300 payments, the first of them more than
\* the interest of the first month
C21_Witness ==
  /\ mounted
  /\ REq(Field("interestRate"), Rat(55, 10))
  /\ REq(Field("amortizationPeriod"), Num(25))
  /\ REq(results.mortgageAmount, Num(400000))
  /\ RGt(results.monthlyPayment, RMul(results.mortgageAmount, MonthlyRate))
  /\ Within(BalanceAfter(1, 300, results.mortgageAmount, MonthlyRate,
                         results.monthlyPayment),
            Zero, Rat(1, 10000))

\* the input record with another interest rate, amortization and down payment
Refinanced(rate, years, percent) ==
  [inputs EXCEPT !["interestRate"] = NumV(rate),
                 !["amortizationPeriod"] = NumV(years),
                 !["downPaymentType"] = StrV(<<"percent">>),
                 !["downPayment"] = NumV(percent)]

\* C22: netOperatingIncome = monthlyRentAfterVacancy*12 - monthlyExpenses*12,
\* the mortgage payment not taken off, and capRate = netOperatingIncome /
\* purchasePrice * 100; another interestRate, amortizationPeriod or down
\* payment leaves both as they are.
C22_NetOperatingIncome ==
  mounted
    => /\ REq(results.netOperatingIncome,
              RSub(RMul(results.monthlyRentAfterVacancy, Num(12)),
                   RMul(results.monthlyExpenses, Num(12))))
       /\ REq(results.capRate,
              RMul(RDiv(results.netOperatingIncome, Field("purchasePrice")), Num(100)))
       /\ \A rate \in {Num(0), Num(7)} : \A years \in {Num(10), Num(30)} :
            \A percent \in {Num(20), Num(60)} :
              /\ REq(NetOperatingIncome(
                       MonthlyRentAfterVacancy(Refinanced(rate, years, percent)),
                       MonthlyOperatingExpenses(Refinanced(rate, years, percent))),
                     results.netOperatingIncome)
              /\ REq(CapRate(
                       NetOperatingIncome(
                         MonthlyRentAfterVacancy(Refinanced(rate, years, percent)),
                         MonthlyOperatingExpenses(Refinanced(rate, years, percent))),
                       PurchasePrice(Refinanced(rate, years, percent))),
                     results.capRate)

\* the same 18100 a year and 3.62% on 500000, with a mortgage at 0% over one
\* year that makes the cash flow negative
C22_Witness ==
  /\ mounted
  /\ REq(Field("purchasePrice"), Num(500000))
  /\ StrictlyZero(inputs["interestRate"])
  /\ REq(Field("amortizationPeriod"), Num(1))
  /\ REq(results.netOperatingIncome, Num(18100))
  /\ REq(results.capRate, Rat(362, 100))
  /\ RLt(results.annualCashFlow, Zero)

\* C23: the ratios on the rent are taken on the gross monthlyRent, not on the
\* rent after vacancy: grossRentMultiplier = purchasePrice / (monthlyRent*12),
\* expenseRatio = (monthlyExpenses*12) / (monthlyRent*12) * 100 and
\* breakEvenOccupancy = totalMonthlyExpenses / monthlyRent * 100, the
\* totalMonthlyExpenses being monthlyExpenses plus the mortgage payment.
C23_GrossRentRatios ==
  mounted
    => /\ REq(results.grossRentMultiplier,
              RDiv(Field("purchasePrice"), RMul(Field("monthlyRent"), Num(12))))
       /\ REq(results.expenseRatio,
              RMul(RDiv(RMul(results.monthlyExpenses, Num(12)),
                        RMul(Field("monthlyRent"), Num(12))),
                   Num(100)))
       /\ REq(results.breakEvenOccupancy,
              RMul(RDiv(RAdd(results.monthlyExpenses, results.monthlyPayment),
                        Field("monthlyRent")),
                   Num(100)))

\* a rent of 2500 with 5% vacancy: the multiplier is 500000 / 30000 and the
\* expense ratio 10400 / 30000, and the break-even occupancy counts the
\* mortgage payment
C23_Witness ==
  /\ mounted
  /\ REq(Field("monthlyRent"), Num(2500))
  /\ REq(Field("vacancyRate"), Num(5))
  /\ REq(results.monthlyRentAfterVacancy, Num(2375))
  /\ REq(results.grossRentMultiplier, Rat(50, 3))
  /\ REq(results.expenseRatio, Rat(104, 3))
  /\ RGt(results.monthlyPayment, Zero)
  /\ RGt(results.breakEvenOccupancy, results.expenseRatio)

\* C24: handleBlur on a field holding '' sets that field to the number 0 and
\* leaves every other input field as it is; handleBlur on a field that is not
\* blank leaves the whole input record as it is.
C24_Blur ==
  \A name \in NumericFields :
    IF IsBlank(inputs[name])
    THEN /\ BlurredInputs(inputs, name)[name] = NumV(Zero)
         /\ \A f \in FieldNames \ {name} : BlurredInputs(inputs, name)[f] = inputs[f]
    ELSE BlurredInputs(inputs, name) = inputs

\* the amortization period cleared and left: the field holds the number 0,
\* the other fields their initial values
C24_Witness ==
  /\ mounted
  /\ edits = 2
  /\ inputs = [InitialInputs EXCEPT !["amortizationPeriod"] = NumV(Zero)]

\* C25: whenever downPaymentType is percent, the stored downPayment is a
\* percentage between 0 and 100, also after purchasePrice was edited in
\* percent mode.
C25_PercentInRange ==
  PercentMode /\ ~IsBlank(inputs["downPayment"])
    => /\ RGe(Coerce(inputs["downPayment"]), Zero)
       /\ RLe(Coerce(inputs["downPayment"]), Num(100))

\* C26: after edits and blurs that enter no negative number, every calculated
\* result has 0 <= mortgageAmount <= 80% of purchasePrice (read here for a
\* positive purchasePrice).
C26_MortgageInRange ==
  CalculatedOnNumbers /\ RGt(Field("purchasePrice"), Zero)
    => /\ RGe(results.mortgageAmount, Zero)
       /\ RLe(results.mortgageAmount,
              RDiv(RMul(Num(80), Field("purchasePrice")), Num(100)))

\* C27: a change that leaves the input record with a field holding '' runs no
\* calculation: the stored results stay exactly as they were, and they are
\* replaced only by a change after which no field is blank.
C27_NoCalculationWhileBlank ==
  [][(AnyBlank(inputs') => results' = results)
     /\ (results' # results => ~AnyBlank(inputs'))]_vars

\* the vacancy rate set to 10, then the interest rate cleared: the results
\* are still those of 5.5% interest
C27_Witness ==
  /\ mounted
  /\ edits = 2
  /\ IsBlank(inputs["interestRate"])
  /\ REq(results.monthlyRentAfterVacancy, Num(2250))
  /\ RGt(results.monthlyPayment, Num(2456))
  /\ RLt(results.monthlyPayment, Num(2457))

\* C28: after edits and blurs that keep purchasePrice and monthlyRent
\* positive, every field of the stored results is finite: no calculation is
\* run with amortizationPeriod * 12 = 0 as a divisor.
C28_FiniteAfterEdits ==
  /\ CalculatedOnNumbers
  /\ RGt(Field("purchasePrice"), Zero)
  /\ RGt(Field("monthlyRent"), Zero)
  => /\ FiniteResults
     /\ ~REq(NumberOfPayments, Zero)

\* C29: the Initial Investment figure shown in the summary is the
\* initialInvestment of the calculation (the floored down payment amount +
\* closingCosts + renovationCosts), in amount and in percent mode and for
\* stated down payments under the floor.
C29_InitialInvestmentShown ==
  CalculatedOnNumbers => REq(InitialInvestmentShown, InitialInvestment(inputs))

\* C30: in every calculated result the first record of the schedule has
\* cashFlow = annualCashFlow and rentalIncome - operatingExpenses =
\* netOperatingIncome, and for monthlyRent > 0 the monthlyCashFlow is >= 0
\* exactly when breakEvenOccupancy <= 100 - vacancyRate.
C30_ScheduleAgreesWithMetrics ==
  mounted
    => /\ REq(results.cashFlowSchedule[1].cashFlow, results.annualCashFlow)
       /\ REq(RSub(results.cashFlowSchedule[1].rentalIncome,
                   results.cashFlowSchedule[1].operatingExpenses),
              results.netOperatingIncome)
       /\ RGt(Field("monthlyRent"), Zero)
            => (RGe(results.monthlyCashFlow, Zero)
                  <=> RLe(results.breakEvenOccupancy,
                          RSub(Num(100), Field("vacancyRate"))))

\* 195000 borrowed at 0% over 25 years: a positive cash flow, year 1 of the
\* schedule equal to it, and a break-even occupancy under 95%
C30_Witness ==
  /\ mounted
  /\ REq(results.mortgageAmount, Num(195000))
  /\ REq(Field("vacancyRate"), Num(5))
  /\ RGt(results.monthlyCashFlow, Zero)
  /\ REq(results.cashFlowSchedule[1].cashFlow, results.annualCashFlow)
  /\ RLt(results.breakEvenOccupancy, Num(95))

====
